---------------------------- MODULE Spec2Model ----------------------------
(***************************************************************************)
(* A model of the test-report action.  The repository holds three          *)
(* versions of run():                                                      *)
(*   "A_output"  src/unnamed/part_000:9-69    groups failed tests by file  *)
(*               and publishes the step output `output`;                   *)
(*   "A_log"     src/src/main.ts:272-330      parses the trigger event,    *)
(*               groups failed tests by file and logs the result;          *)
(*   "B"         src/src/main.ts:107-150      parses the trigger event and *)
(*               decides on summary.failed alone.                          *)
(*                                                                         *)
(* JavaScript values are represented as follows.                           *)
(*   - a value that may be undefined/absent is a sequence of length <= 1:  *)
(*     <<>> is undefined, <<v>> is v;                                      *)
(*   - a plain object used as a dictionary is the sequence of its own      *)
(*     properties [key, value] in insertion order;                         *)
(*   - an array is a sequence;                                             *)
(*   - a string that the code splits is kept as its sequence of tokens     *)
(*     (each token is "/" or a run of characters holding no "/").          *)
(* ANSI colour escapes of the log lines are left out of the strings.       *)
(***************************************************************************)
EXTENDS Integers, Sequences, FiniteSets, TLC

VARIABLES
  variant,            \* which version of run() executes
  strictMode,         \* whether the build runs the module as strict-mode code
  eventPayload,       \* github.context.payload
  fileInput,          \* the step input `file` ("" when not supplied)
  disk,               \* what reading the report file yields
  pc,                 \* position of run()
  parsedEvent,        \* const parsedEvent   (<<>> before the assignment)
  data,               \* const data = JSON.parse(fileContent)
  summary,            \* const summary
  tests,              \* const tests
  environment,        \* environment (variant B)
  payload,            \* const payload (variant B)
  failedTestsByFile,  \* const failedTestsByFile
  idx,                \* tests.forEach: number of tests already visited
  infoLog,            \* lines written by core.info / core.debug / console.log
  outputs,            \* values passed to core.setOutput('output', ...)
  failures,           \* messages passed to core.setFailed
  thrown,             \* the value in flight to the catch clause
  caught,             \* the value the catch clause received
  branch              \* which arm of the final if ran

vars == <<variant, strictMode, eventPayload, fileInput, disk, pc, parsedEvent,
          data, summary, tests, environment, payload, failedTestsByFile, idx,
          infoLog, outputs, failures, thrown, caught, branch>>

inputs == <<variant, strictMode, eventPayload, fileInput, disk>>

-----------------------------------------------------------------------------
(* Bounds of the model *)

\* longest `tests` array of the aggregation inputs
MaxTests == 3

\* most tokens in the part of a ref that follows its prefix
MaxRefLen == 3

-----------------------------------------------------------------------------
(* JavaScript helpers *)

None == <<>>

Some(v) == <<v>>

\* x ?? d  and, for the objects and arrays used here, x || d
OrElse(x, d) == IF x = None THEN d ELSE x[1]

\* own enumerable property names, in insertion order: Object.keys(obj)
ObjectKeys(obj) == [i \in DOMAIN obj |-> obj[i].key]

HasOwn(obj, key) == \E i \in DOMAIN obj : obj[i].key = key

\* the value of own property key
OwnValue(obj, key) == obj[CHOOSE i \in DOMAIN obj : obj[i].key = key].value

\* obj.key of a plain object whose inherited properties are not read
GetOwn(obj, key) == IF HasOwn(obj, key) THEN Some(OwnValue(obj, key)) ELSE None

\* property names every plain object inherits from Object.prototype
ObjectPrototypeProps ==
  {"constructor", "__proto__", "toString", "valueOf", "hasOwnProperty"}

\* obj[key] = obj[key].concat(v) on an own property
PushOwn(obj, key, v) ==
  [i \in DOMAIN obj |->
     IF obj[i].key = key
     THEN [key |-> key, value |-> Append(obj[i].value, v)]
     ELSE obj[i]]

\* a key conversion that files an absent filePath under the empty string
ToPropertyKeyEmpty(optString) == IF optString = None THEN "" ELSE optString[1]

\* property-key conversion of test.filePath: undefined becomes "undefined"
ToPropertyKey(optString) == IF optString = None THEN "undefined" ELSE optString[1]

-----------------------------------------------------------------------------
(* Thrown values and results of calls that may throw *)

\* new Error(message) and the built-in errors (TypeError, SyntaxError, ...)
Error(name, message) == [isError |-> TRUE, name |-> name, message |-> message]

\* a thrown value that is not an instance of Error
NonErrorValue == [isError |-> FALSE, name |-> "", message |-> "rejected"]

Return(v) == [ok |-> TRUE, value |-> v]

Throw(e) == [ok |-> FALSE, value |-> e]

-----------------------------------------------------------------------------
(* Strings that the code splits *)

RECURSIVE Join(_)
\* the string a token sequence stands for
Join(toks) == IF toks = <<>> THEN "" ELSE toks[1] \o Join(Tail(toks))

RECURSIVE SplitFrom(_, _, _, _)
SplitFrom(toks, i, cur, acc) ==
  IF i > Len(toks) THEN Append(acc, cur)
  ELSE IF toks[i] = "/" THEN SplitFrom(toks, i + 1, "", Append(acc, cur))
  ELSE SplitFrom(toks, i + 1, cur \o toks[i], acc)

\* String.prototype.split('/'): the pieces between the slashes, empty pieces kept
Split(toks) == SplitFrom(toks, 1, "", <<>>)

\* Array.prototype.pop(): the last element (split never returns an empty array)
Pop(arr) == IF arr = <<>> THEN None ELSE Some(arr[Len(arr)])

\* a string is falsy exactly when it is empty; undefined is falsy
Truthy(optString) == optString /= None /\ optString[1] /= ""

\* the last segment without the fallback to the whole ref
BranchOfRefNoFallback(ref) == Pop(Split(ref))[1]

\* payload.ref.split('/').pop() || payload.ref
BranchOfRef(ref) ==
  LET last == Pop(Split(ref))
  IN IF Truthy(last) THEN last[1] ELSE Join(ref)

-----------------------------------------------------------------------------
(* parseGitEvent *)

\* 'pull_request' in payload, 'head_commit' in payload
In(field, p) == IF field = "pull_request" THEN p.pull_request /= None
                ELSE p.head_commit /= None

\* commit.author.username in variant B, commit.author.name in variant A_log
CommitUser(v, commit) ==
  IF v = "B" THEN commit.author.username ELSE Some(commit.author.name)

\* parseGitEvent with its two tests in the other order: head_commit first
ParseGitEventCommitFirst(v, p) ==
  IF In("head_commit", p) THEN
    LET commit == p.head_commit[1]
    IN Return([type     |-> "commit",
               repoUrl  |-> p.repository.html_url,
               eventUrl |-> commit.url,
               user     |-> CommitUser(v, commit),
               time     |-> commit.timestamp,
               branch   |-> BranchOfRef(p.ref),
               message  |-> commit.message,
               commitId |-> Some(commit.id)])
  ELSE IF In("pull_request", p) THEN
    LET pr == p.pull_request[1]
    IN Return([type     |-> "pull_request",
               repoUrl  |-> p.repository.html_url,
               eventUrl |-> pr.html_url,
               user     |-> Some(pr.user.login),
               time     |-> pr.created_at,
               branch   |-> pr.head.ref,
               message  |-> pr.title,
               commitId |-> None])
  ELSE Throw(Error("Error", "Unsupported GitHub event payload"))

\* parseGitEvent(payload) of variant v; an absent commitId is None
ParseGitEvent(v, p) ==
  IF In("pull_request", p) THEN
    LET pr == p.pull_request[1]
    IN Return([type     |-> "pull_request",
               repoUrl  |-> p.repository.html_url,
               eventUrl |-> pr.html_url,
               user     |-> Some(pr.user.login),
               time     |-> pr.created_at,
               branch   |-> pr.head.ref,
               message  |-> pr.title,
               commitId |-> None])
  ELSE IF In("head_commit", p) THEN
    LET commit == p.head_commit[1]
    IN Return([type     |-> "commit",
               repoUrl  |-> p.repository.html_url,
               eventUrl |-> commit.url,
               user     |-> CommitUser(v, commit),
               time     |-> commit.timestamp,
               branch   |-> BranchOfRef(p.ref),
               message  |-> commit.message,
               commitId |-> Some(commit.id)])
  ELSE Throw(Error("Error", "Unsupported GitHub event payload"))

-----------------------------------------------------------------------------
(* JSON.stringify and string conversion *)

Quote(s) == "\"" \o s \o "\""

RECURSIVE JoinWith(_, _)
\* Array.prototype.join
JoinWith(strs, sep) ==
  IF strs = <<>> THEN ""
  ELSE IF Len(strs) = 1 THEN strs[1]
  ELSE strs[1] \o sep \o JoinWith(Tail(strs), sep)

IsPresent(member) == member.json /= None

\* the members JSON.stringify writes: a property whose value is undefined is skipped
Written(members) == SelectSeq(members, IsPresent)

\* JSON.stringify(obj) of an object given as its members [key, json]
StringifyObject(members) ==
  LET w == Written(members)
  IN "{" \o JoinWith([i \in DOMAIN w |-> Quote(w[i].key) \o ":" \o w[i].json[1]], ",")
         \o "}"

\* JSON.stringify(obj, null, 2)
StringifyObjectIndented(members) ==
  LET w == Written(members)
  IN IF w = <<>> THEN "{}"
     ELSE "{\n  "
          \o JoinWith([i \in DOMAIN w |-> Quote(w[i].key) \o ": " \o w[i].json[1]],
                      ",\n  ")
          \o "\n}"

StringifyArray(items) == "[" \o JoinWith(items, ",") \o "]"

OptQuote(optString) == IF optString = None THEN None ELSE Some(Quote(optString[1]))

\* JSON.stringify of one test record
StringifyTest(t) ==
  StringifyObject(<<[key |-> "name",     json |-> Some(Quote(t.name))],
                    [key |-> "status",   json |-> Some(Quote(t.status))],
                    [key |-> "filePath", json |-> OptQuote(t.filePath)]>>)

\* JSON.stringify of the summary object (its values are numbers)
StringifySummary(s) ==
  StringifyObject([i \in DOMAIN s |->
                     [key |-> s[i].key, json |-> Some(ToString(s[i].value))]])

\* JSON.stringify of the failure mapping
StringifyFailures(obj) ==
  StringifyObject([i \in DOMAIN obj |->
     [key  |-> obj[i].key,
      json |-> Some(StringifyArray([j \in DOMAIN obj[i].value |->
                                      StringifyTest(obj[i].value[j])]))]])

\* JSON.stringify({ summary: summary, failed_tests_by_file: failedTestsByFile })
StringifyProcessed(s, obj) ==
  StringifyObject(<<[key |-> "summary", json |-> Some(StringifySummary(s))],
                    [key |-> "failed_tests_by_file",
                     json |-> Some(StringifyFailures(obj))]>>)

\* JSON.stringify(parsedEvent, null, 2)
StringifyEvent(e) ==
  StringifyObjectIndented(
    <<[key |-> "type",     json |-> Some(Quote(e.type))],
      [key |-> "repoUrl",  json |-> Some(Quote(e.repoUrl))],
      [key |-> "eventUrl", json |-> Some(Quote(e.eventUrl))],
      [key |-> "user",     json |-> OptQuote(e.user)],
      [key |-> "time",     json |-> Some(Quote(e.time))],
      [key |-> "branch",   json |-> Some(Quote(e.branch))],
      [key |-> "message",  json |-> Some(Quote(e.message))],
      [key |-> "commitId", json |-> OptQuote(e.commitId)]>>)

\* `${payload}` of a plain object: Object.prototype.toString
TemplateOfObject(obj) == "[object Object]"

-----------------------------------------------------------------------------
(* processTest *)

\* the message of the TypeError raised by calling a property that is no function
PushNotAFunction(v) ==
  IF v = "A_output" THEN "failedTestsByFile[filePath].push is not a function"
  ELSE "failedTestsByFile[test.filePath].push is not a function"

\* !failedTestsByFile[filePath]: own lists and inherited members are truthy
IsFalsyProperty(obj, key) == ~HasOwn(obj, key) /\ key \notin ObjectPrototypeProps

\* a status test that lets every status but "passed" through
IsNotPassed(test) == test.status /= "passed"

\* test.status === 'failed'
IsFailed(test) == test.status = "failed"

\* processTest(test) applied to the mapping obj: the mapping afterwards, or the throw
ProcessTest(v, obj, test) ==
  LET filePath == ToPropertyKey(test.filePath)
  IN IF IsFailed(test) THEN
       LET created == IF IsFalsyProperty(obj, filePath)
                      THEN Append(obj, [key |-> filePath, value |-> <<>>])
                      ELSE obj
       IN IF HasOwn(created, filePath)
          THEN Return(PushOwn(created, filePath, test))
          ELSE Throw(Error("TypeError", PushNotAFunction(v)))
     ELSE Return(obj)

-----------------------------------------------------------------------------
(* Inputs of a run *)

Variants == {"A_output", "A_log", "B"}

SeqsUpTo(S, n) == UNION {[1..k -> S] : k \in 0..n}

\* test records; the fields that no version of run() reads are left out
TestNames == {"a", "b"}

TestStatuses == {"failed", "passed"}

TestFilePaths == {None, Some(""), Some("x.spec.ts"), Some("constructor")}

SkippedA == [name |-> "a", status |-> "skipped", filePath |-> Some("x.spec.ts")]

TestDomain ==
  [name : TestNames, status : TestStatuses, filePath : TestFilePaths] \cup {SkippedA}

Entry(k, v) == [key |-> k, value |-> v]

\* results.summary: absent, {}, and objects with and without a `failed` counter
SummaryDomain ==
  {None,
   Some(<<>>),
   Some(<<Entry("total", 1)>>),
   Some(<<Entry("total", 1), Entry("failed", 0)>>),
   Some(<<Entry("total", 2), Entry("failed", 1)>>)}

FailedA == [name |-> "a", status |-> "failed", filePath |-> Some("x.spec.ts")]

PassedB == [name |-> "b", status |-> "passed", filePath |-> Some("x.spec.ts")]

\* results.tests of the orchestration inputs: absent, empty, green, red
FewTests == {None, Some(<<>>), Some(<<PassedB>>), Some(<<FailedA, PassedB>>)}

ReportedEnvironment ==
  [repositoryUrl |-> "https://ci.example/r", branchName |-> "ci", commit |-> "abc123"]

Results(s, t, e) == [summary |-> s, tests |-> t, environment |-> e]

EmptyObject == Results(None, None, None)

Document(r) == [results |-> r]

\* what reading and parsing the report file yields
Missing == [kind |-> "missing", value |-> None]

Hostile == [kind |-> "hostile", value |-> None]

Malformed == [kind |-> "malformed", value |-> None]

JsonNull == [kind |-> "json", value |-> None]

Json(doc) == [kind |-> "json", value |-> Some(doc)]

Repository == [html_url |-> "https://github.com/o/r", full_name |-> "o/r"]

PullRequest ==
  [html_url   |-> "https://github.com/o/r/pull/1",
   created_at |-> "2024-01-01T00:00:00Z",
   title      |-> "Add tests",
   user       |-> [login |-> "octocat"],
   head       |-> [ref |-> "feature/x"],
   base       |-> [ref |-> "main"]]

HeadCommit(username) ==
  [timestamp |-> "2024-01-02T00:00:00Z",
   url       |-> "https://github.com/o/r/commit/c0ffee",
   message   |-> "Fix tests",
   id        |-> "c0ffee",
   author    |-> [name |-> "Mona", username |-> username, email |-> "m@o.r"]]

EventPayload(pr, hc, ref) ==
  [pull_request |-> pr, head_commit |-> hc, ref |-> ref, repository |-> Repository]

RefsHeads == <<"refs", "/", "heads", "/">>

RefTokens == {"/", "main", "x"}

Refs == {prefix \o rest : prefix \in {<<>>, RefsHeads},
                          rest \in SeqsUpTo(RefTokens, MaxRefLen)}

PushToMain ==
  EventPayload(None, Some(HeadCommit(Some("mona"))), RefsHeads \o <<"main">>)

\* aggregation over every short list of tests
AggregationInputs ==
  /\ variant \in {"A_output", "A_log"}
  /\ strictMode = TRUE
  /\ eventPayload = PushToMain
  /\ fileInput = "report.json"
  /\ \E t \in SeqsUpTo(TestDomain, MaxTests) :
       disk = Json(Document(Some(Results(Some(<<Entry("total", 2), Entry("failed", 1)>>),
                                         Some(t), None))))

\* every way a run can go, over every version
OrchestrationInputs ==
  /\ variant \in Variants
  /\ strictMode \in BOOLEAN
  /\ eventPayload \in {PushToMain,
                       EventPayload(Some(PullRequest), None, <<>>),
                       EventPayload(None, None, <<>>)}
  /\ fileInput \in {"", "report.json"}
  /\ disk \in {Missing, Hostile, Malformed, JsonNull, Json(Document(None))}
              \cup {Json(Document(Some(Results(s, t, e)))) :
                      s \in SummaryDomain, t \in FewTests,
                      e \in {None, Some(ReportedEnvironment)}}

\* every event payload, over the versions that parse it
EventInputs ==
  /\ variant \in {"A_log", "B"}
  /\ strictMode = FALSE
  /\ \E pr \in {None, Some(PullRequest)},
        hc \in {None, Some(HeadCommit(None)), Some(HeadCommit(Some("mona")))},
        ref \in Refs :
       eventPayload = EventPayload(pr, hc, ref)
  /\ fileInput = "report.json"
  /\ disk = Json(Document(Some(Results(Some(<<Entry("total", 1), Entry("failed", 0)>>),
                                       Some(<<PassedB>>), None))))

Init ==
  /\ AggregationInputs \/ OrchestrationInputs \/ EventInputs
  /\ pc = "start"
  /\ parsedEvent = None
  /\ data = None
  /\ summary = <<>>
  /\ tests = <<>>
  /\ environment = None
  /\ payload = None
  /\ failedTestsByFile = <<>>
  /\ idx = 0
  /\ infoLog = <<>>
  /\ outputs = <<>>
  /\ failures = <<>>
  /\ thrown = None
  /\ caught = None
  /\ branch = "none"

-----------------------------------------------------------------------------
(* run() *)

locals == <<parsedEvent, data, summary, tests, environment, payload,
            failedTestsByFile, idx, branch>>

\* a throw inside the try block: control passes to the catch clause
Raise(e) ==
  /\ thrown' = Some(e)
  /\ pc' = "catch"

\* core.info(line), core.debug(line), console.log(line)
Info(lines) == infoLog' = infoLog \o lines

\* results.environment of the parsed report
ResultsOf(doc) == OrElse(doc.results, EmptyObject)

\* summary.failed > 0 (undefined > 0 is false)
GreaterThanZero(optNumber) == optNumber /= None /\ optNumber[1] > 0

\* part_000: core.debug and console.log open the run
LogStart ==
  /\ pc = "start"
  /\ variant = "A_output"
  /\ Info(<<"DEBUG: Procesing file...", "CONSOLE: Procesing file...">>)
  /\ pc' = "getInput"
  /\ UNCHANGED <<inputs, locals, outputs, failures, thrown, caught>>

\* main.ts: parseGitEvent(github.context.payload) and the three log lines
ParseEvent ==
  /\ pc = "start"
  /\ variant /= "A_output"
  /\ LET r == ParseGitEvent(variant, eventPayload)
     IN IF r.ok
        THEN /\ parsedEvent' = Some(r.value)
             /\ Info(<<"Event relevant information: " \o StringifyEvent(r.value),
                       "..........................",
                       "CONSOLE: Processing file...">>)
             /\ pc' = "getInput"
             /\ UNCHANGED thrown
        ELSE /\ Raise(r.value)
             /\ UNCHANGED <<parsedEvent, infoLog>>
  /\ UNCHANGED <<inputs, data, summary, tests, environment, payload,
                 failedTestsByFile, idx, branch, outputs, failures, caught>>

\* core.getInput('file') in part_000, core.getInput('file', { required: true }) in main.ts
GetInput ==
  /\ pc = "getInput"
  /\ IF variant /= "A_output" /\ fileInput = ""
     THEN Raise(Error("Error", "Input required and not supplied: file"))
     ELSE pc' = "readFile" /\ UNCHANGED thrown
  /\ UNCHANGED <<inputs, locals, infoLog, outputs, failures, caught>>

\* fs.readFileSync(file, 'utf8')
ReadFile ==
  /\ pc = "readFile"
  /\ IF fileInput = "" \/ disk.kind = "missing"
     THEN Raise(Error("Error", "ENOENT: no such file or directory, open '"
                               \o fileInput \o "'"))
     ELSE IF disk.kind = "hostile"
     THEN Raise(NonErrorValue)
     ELSE pc' = "parseJson" /\ UNCHANGED thrown
  /\ UNCHANGED <<inputs, locals, infoLog, outputs, failures, caught>>

\* JSON.parse(fileContent)
ParseJson ==
  /\ pc = "parseJson"
  /\ IF disk.kind = "malformed"
     THEN Raise(Error("SyntaxError", "Unexpected end of JSON input"))
          /\ UNCHANGED data
     ELSE data' = Some(disk.value) /\ pc' = "readResults" /\ UNCHANGED thrown
  /\ UNCHANGED <<inputs, parsedEvent, summary, tests, environment, payload,
                 failedTestsByFile, idx, branch, infoLog, outputs, failures, caught>>

\* results, summary, tests and failedTestsByFile with their defaults
ReadResults ==
  /\ pc = "readResults"
  /\ IF data[1] = None
     THEN /\ Raise(Error("TypeError",
                         "Cannot read properties of null (reading 'results')"))
          /\ UNCHANGED <<summary, tests, failedTestsByFile>>
     ELSE LET results == ResultsOf(data[1][1])
          IN /\ summary' = OrElse(results.summary, <<>>)
             /\ tests' = OrElse(results.tests, <<>>)
             /\ failedTestsByFile' = <<>>
             /\ pc' = IF variant = "B" THEN "buildPayload" ELSE "forEach"
             /\ UNCHANGED thrown
  /\ UNCHANGED <<inputs, parsedEvent, data, environment, payload, idx, branch,
                 infoLog, outputs, failures, caught>>

\* the environment object built when the report carries none
DefaultEnvironment(e) ==
  [repositoryUrl |-> e.repoUrl,
   branchName    |-> e.branch,
   commit        |-> IF e.type = "commit" THEN e.commitId[1] ELSE ""]

\* variant B: environment, context and payload.  `environment` is declared
\* nowhere: the assignment raises a ReferenceError in strict-mode code and
\* creates a global otherwise.
BuildPayload ==
  /\ pc = "buildPayload"
  /\ IF strictMode
     THEN /\ Raise(Error("ReferenceError", "environment is not defined"))
          /\ UNCHANGED <<environment, payload>>
     ELSE LET results == ResultsOf(data[1][1])
              e == parsedEvent[1]
              env == OrElse(results.environment, DefaultEnvironment(e))
          IN /\ environment' = Some(env)
             /\ payload' = Some([results |-> [summary |-> summary, tests |-> tests,
                                              environment |-> env],
                                 context |-> [type |-> e.type, actor |-> e.user,
                                              eventURL |-> e.eventUrl]])
             /\ pc' = "report"
             /\ UNCHANGED thrown
  /\ UNCHANGED <<inputs, parsedEvent, data, summary, tests, failedTestsByFile, idx,
                 branch, infoLog, outputs, failures, caught>>

\* tests.forEach(processTest): one call of processTest
ForEachTest ==
  /\ pc = "forEach"
  /\ idx < Len(tests)
  /\ LET r == ProcessTest(variant, failedTestsByFile, tests[idx + 1])
     IN IF r.ok
        THEN /\ failedTestsByFile' = r.value
             /\ idx' = idx + 1
             /\ UNCHANGED <<pc, thrown>>
        ELSE /\ Raise(r.value)
             /\ UNCHANGED <<failedTestsByFile, idx>>
  /\ UNCHANGED <<inputs, parsedEvent, data, summary, tests, environment, payload,
                 branch, infoLog, outputs, failures, caught>>

\* the gate without its test of the summary
HasFailuresWhateverSummary(s, obj) == Len(ObjectKeys(obj)) > 0

\* Object.keys(summary).length > 0 && Object.keys(failedTestsByFile).length > 0
HasFailures(s, obj) == Len(ObjectKeys(s)) > 0 /\ Len(ObjectKeys(obj)) > 0

\* Object.keys(summary).length > 0 && summary.failed > 0
CountsFailures(s) == Len(ObjectKeys(s)) > 0 /\ GreaterThanZero(GetOwn(s, "failed"))

\* part_000: the step output
ReportOutput ==
  /\ pc = "forEach"
  /\ idx = Len(tests)
  /\ variant = "A_output"
  /\ IF HasFailures(summary, failedTestsByFile)
     THEN /\ outputs' = Append(outputs, StringifyProcessed(summary, failedTestsByFile))
          /\ branch' = "failure"
     ELSE /\ outputs' = Append(outputs, "All tests were successfull!")
          /\ branch' = "success"
  /\ pc' = "done"
  /\ UNCHANGED <<inputs, parsedEvent, data, summary, tests, environment, payload,
                 failedTestsByFile, idx, infoLog, failures, thrown, caught>>

\* main.ts:310-322: the grouped failures are logged
ReportLog ==
  /\ pc = "forEach"
  /\ idx = Len(tests)
  /\ variant = "A_log"
  /\ IF HasFailures(summary, failedTestsByFile)
     THEN /\ Info(<<"Some tests failed",
                    "Results: " \o StringifyProcessed(summary, failedTestsByFile)>>)
          /\ branch' = "failure"
     ELSE /\ Info(<<"All tests were successful!">>)
          /\ branch' = "success"
  /\ pc' = "done"
  /\ UNCHANGED <<inputs, parsedEvent, data, summary, tests, environment, payload,
                 failedTestsByFile, idx, outputs, failures, thrown, caught>>

\* main.ts:134-142: the decision on summary.failed
ReportCounter ==
  /\ pc = "report"
  /\ IF CountsFailures(summary)
     THEN /\ Info(<<"Some tests failed", "Results: " \o TemplateOfObject(payload[1])>>)
          /\ branch' = "failure"
     ELSE /\ Info(<<"All tests were successful!",
                    "Results: " \o TemplateOfObject(payload[1])>>)
          /\ branch' = "success"
  /\ pc' = "done"
  /\ UNCHANGED <<inputs, parsedEvent, data, summary, tests, environment, payload,
                 failedTestsByFile, idx, outputs, failures, thrown, caught>>

\* a catch clause that reads .message of whatever was thrown
FailureMessageUnchecked(e) == e.message

\* the message the catch clause hands to core.setFailed
FailureMessage(e) == IF e.isError THEN e.message ELSE "An unknown error occurred."

\* catch (error) { core.setFailed(...) }
Catch ==
  /\ pc = "catch"
  /\ failures' = Append(failures, FailureMessage(thrown[1]))
  /\ caught' = thrown
  /\ thrown' = None
  /\ pc' = "done"
  /\ UNCHANGED <<inputs, locals, infoLog, outputs>>

Next ==
  \/ LogStart
  \/ ParseEvent
  \/ GetInput
  \/ ReadFile
  \/ ParseJson
  \/ ReadResults
  \/ BuildPayload
  \/ ForEachTest
  \/ ReportOutput
  \/ ReportLog
  \/ ReportCounter
  \/ Catch

Spec == Init /\ [][Next]_vars

-----------------------------------------------------------------------------
(* Vocabulary of the properties *)

\* the run has ended
Done == pc = "done"

\* the run ended without an exception
DoneNormally == Done /\ caught = None

\* the versions of run() that group failed tests by file
Grouping == variant \in {"A_output", "A_log"}

\* results.tests of the report on disk, absent or not (None when there is no report)
ReportTests ==
  IF disk.kind = "json" /\ disk.value /= None
  THEN ResultsOf(disk.value[1]).tests
  ELSE None

\* results.summary of the report on disk
ReportSummary ==
  IF disk.kind = "json" /\ disk.value /= None
  THEN ResultsOf(disk.value[1]).summary
  ELSE None

\* the tests processTest has been called on so far
Visited == SubSeq(tests, 1, idx)

\* the list stored under key p, empty when p is no key
StoredUnder(p) ==
  IF HasOwn(failedTestsByFile, p) THEN OwnValue(failedTestsByFile, p) ELSE <<>>

\* the failed tests of seq whose filePath is fp, in the order of seq
FailedAt(seq, fp) ==
  LET Match(t) == t.status = "failed" /\ t.filePath = fp
  IN SelectSeq(seq, Match)

\* tests.forEach(processTest) has been reached
ScanBegun ==
  /\ Grouping
  /\ data /= None
  /\ data[1] /= None
  /\ pc /= "readResults"

\* the exception in flight was raised by a call of processTest
RaisedInScan == ScanBegun /\ pc = "catch"

-----------------------------------------------------------------------------
(* C1 *)

\* C1: at every point of the scan the failure mapping holds only tests whose
\* status is exactly "failed", each of them a test already visited and stored
\* under the key of its own filePath; no key maps to an empty list, so a file
\* path whose tests are all non-failed is never a key.
C1_OnlyFailedTests ==
  \A i \in DOMAIN failedTestsByFile :
    LET e == failedTestsByFile[i]
    IN /\ e.value /= <<>>
       /\ \A j \in DOMAIN e.value :
            /\ e.value[j].status = "failed"
            /\ \E k \in 1..idx : tests[k] = e.value[j]
            /\ ToPropertyKey(e.value[j].filePath) = e.key

\* a finished scan of three tests that kept a failed test and skipped two
\* non-failed ones, one of them the only test of its file
C1_Witness ==
  /\ Grouping
  /\ Done
  /\ Len(tests) = 3
  /\ idx = 3
  /\ failedTestsByFile /= <<>>
  /\ \E k \in 1..3 : /\ tests[k].status = "skipped"
                     /\ HasOwn(failedTestsByFile, ToPropertyKey(tests[k].filePath))
  /\ \E k \in 1..3 : /\ tests[k].status = "passed"
                     /\ ~HasOwn(failedTestsByFile, ToPropertyKey(tests[k].filePath))

-----------------------------------------------------------------------------
(* C2 *)

\* C2: when a run that began the scan has ended, for every file path p carried
\* by a test of the input, the list stored under key p is the subsequence of
\* the input tests that failed and have filePath p, in input order and with
\* multiplicity: no failed test is dropped, reordered or deduplicated.
C2_StableGrouping ==
  (ScanBegun /\ Done) =>
    \A k \in DOMAIN tests :
      LET fp == tests[k].filePath
      IN fp /= None => StoredUnder(fp[1]) = FailedAt(tests, fp)

-----------------------------------------------------------------------------
(* C3 *)

SuccessLiteral == "All tests were successfull!"

\* C3: a run of the presence-gated version that publishes the step output and
\* raised no exception has set `output` exactly once: to the JSON encoding of
\* {summary, failed_tests_by_file} when the summary has a key and the failure
\* mapping has a key, and to the success literal otherwise; a report whose
\* summary is missing or empty yields the literal whatever its tests are.
\* Before the end of the run, and in a run that raised, `output` is not set.
C3_PresenceGatedOutput ==
  variant = "A_output" =>
    /\ DoneNormally =>
         /\ Len(outputs) = 1
         /\ outputs[1] =
              IF Len(summary) > 0 /\ Len(failedTestsByFile) > 0
              THEN StringifyProcessed(summary, failedTestsByFile)
              ELSE SuccessLiteral
         /\ OrElse(ReportSummary, <<>>) = <<>> => outputs[1] = SuccessLiteral
         /\ (\A k \in DOMAIN tests : tests[k].status /= "failed")
              => outputs[1] = SuccessLiteral
         /\ outputs[1] /= SuccessLiteral => branch = "failure"
    /\ ~DoneNormally => outputs = <<>>

\* a report without a summary whose tests failed, answered by the literal
C3_Witness ==
  /\ variant = "A_output"
  /\ DoneNormally
  /\ ReportSummary = None
  /\ Len(failedTestsByFile) > 0
  /\ outputs = <<SuccessLiteral>>

-----------------------------------------------------------------------------
(* C4 *)

\* the report was parsed and its tests are empty or absent
NoTestsReported ==
  /\ data /= None
  /\ data[1] /= None
  /\ OrElse(ResultsOf(data[1][1]).tests, <<>>) = <<>>

\* C4: in every version of run, when the parsed report's tests are empty or
\* absent, the failure mapping is empty, the failure branch is never taken,
\* and a run that raised no exception took the success branch without a
\* setFailed call.
C4_NoTestsIsSuccess ==
  (Done /\ NoTestsReported) =>
    /\ failedTestsByFile = <<>>
    /\ branch /= "failure"
    /\ caught = None => (branch = "success" /\ failures = <<>>)

-----------------------------------------------------------------------------
(* C5 *)

\* C5: at most one of setOutput and setFailed is ever called, and at most
\* once; an exception in flight is always on its way to the catch clause and
\* none is left when the run ends; a run that raised ends with exactly one
\* setFailed call, carrying the message of the Error caught or the fixed
\* string for a value that is no Error, and with `output` never set; a run
\* that did not raise calls setFailed never.
C5_FailureOrOutput ==
  /\ Len(outputs) + Len(failures) <= 1
  /\ thrown /= None <=> pc = "catch"
  /\ pc = "catch" => (outputs = <<>> /\ failures = <<>>)
  /\ Done =>
       IF caught = None THEN failures = <<>>
       ELSE /\ outputs = <<>>
            /\ failures = <<IF caught[1].isError THEN caught[1].message
                            ELSE "An unknown error occurred.">>

\* a run ended by a thrown value that is no Error
C5_Witness ==
  /\ Done
  /\ caught /= None
  /\ ~caught[1].isError
  /\ failures = <<"An unknown error occurred.">>
  /\ outputs = <<>>

-----------------------------------------------------------------------------
(* C6 *)

\* parseGitEvent has returned or thrown
EventParsed == variant /= "A_output" /\ pc /= "start"

UnsupportedMessage == "Unsupported GitHub event payload"

\* C6: once parseGitEvent has run, a payload that carries pull_request has
\* given a record of type "pull_request" without commitId, whether or not it
\* carries head_commit; a payload with head_commit and no pull_request has
\* given a record of type "commit" whose commitId is head_commit.id; a payload
\* with neither has given no record, and the run fails with the
\* unsupported-event error.
C6_FirstMatchWins ==
  EventParsed =>
    IF eventPayload.pull_request /= None
    THEN /\ parsedEvent /= None
         /\ parsedEvent[1].type = "pull_request"
         /\ parsedEvent[1].commitId = None
    ELSE IF eventPayload.head_commit /= None
    THEN /\ parsedEvent /= None
         /\ parsedEvent[1].type = "commit"
         /\ parsedEvent[1].commitId = Some(eventPayload.head_commit[1].id)
    ELSE /\ parsedEvent = None
         /\ pc \in {"catch", "done"}
         /\ pc = "catch" => thrown = Some(Error("Error", UnsupportedMessage))
         /\ Done => failures = <<UnsupportedMessage>>

\* a payload that carries both fields, classified as a pull request
C6_Witness ==
  /\ EventParsed
  /\ eventPayload.pull_request /= None
  /\ eventPayload.head_commit /= None
  /\ parsedEvent /= None
  /\ parsedEvent[1].type = "pull_request"
  /\ parsedEvent[1].commitId = None

-----------------------------------------------------------------------------
(* C7, C9 *)

\* the event is a commit event and parseGitEvent has returned its record
CommitParsed ==
  /\ EventParsed
  /\ eventPayload.pull_request = None
  /\ eventPayload.head_commit /= None
  /\ parsedEvent /= None

\* the positions of the slashes of a ref
Slashes(ref) == {i \in DOMAIN ref : ref[i] = "/"}

\* the part of a ref that follows its last slash, the whole ref when it has none
AfterLastSlash(ref) ==
  IF Slashes(ref) = {} THEN Join(ref)
  ELSE LET last == CHOOSE i \in Slashes(ref) : \A j \in Slashes(ref) : j <= i
       IN Join(SubSeq(ref, last + 1, Len(ref)))

\* the || of BranchOfRef took its right operand
TookFallback(ref) == ~Truthy(Pop(Split(ref)))

RefMain == <<"main">>

RefsHeadsMain == RefsHeads \o <<"main">>

\* C7 as claimed: the branch of a commit event is the last segment of ref, or
\* the whole ref when the split yields nothing usable; refs/heads/main gives
\* "main", and "main" gives "main" through the fallback path.
C7_MainThroughFallback ==
  CommitParsed =>
    /\ eventPayload.ref = RefsHeadsMain => parsedEvent[1].branch = "main"
    /\ eventPayload.ref = RefMain =>
         (parsedEvent[1].branch = "main" /\ TookFallback(eventPayload.ref))

\* C7: the branch of a commit event is the part of ref after its last slash
\* when that part is not empty, and the whole ref otherwise; refs/heads/main
\* gives "main"; "main" gives "main" as the one segment of the split, not
\* through the fallback, which is taken exactly when ref is empty or ends
\* with a slash.
C7_LastSegmentOrWholeRef ==
  CommitParsed =>
    LET ref == eventPayload.ref
        b == parsedEvent[1].branch
    IN /\ b = IF AfterLastSlash(ref) /= "" THEN AfterLastSlash(ref) ELSE Join(ref)
       /\ ref = RefsHeadsMain => b = "main"
       /\ ref = RefMain => (b = "main" /\ ~TookFallback(ref))
       /\ TookFallback(ref) <=> (ref = <<>> \/ ref[Len(ref)] = "/")

\* a commit on ref "main", parsed
C7_Witness ==
  /\ CommitParsed
  /\ eventPayload.ref = RefMain
  /\ parsedEvent[1].branch = "main"

\* a branch name git accepts: not empty, no empty component
IsBranchName(toks) ==
  /\ toks /= <<>>
  /\ toks[1] /= "/"
  /\ toks[Len(toks)] /= "/"
  /\ \A i \in 1..(Len(toks) - 1) : ~(toks[i] = "/" /\ toks[i + 1] = "/")

\* C9: for every commit payload whose ref is refs/heads/<branch>, the branch
\* of the record equals <branch>, also when <branch> holds a slash.
C9_BranchOfRefsHeads ==
  CommitParsed =>
    \A name \in SeqsUpTo(RefTokens, MaxRefLen) :
      (IsBranchName(name) /\ eventPayload.ref = RefsHeads \o name)
        => parsedEvent[1].branch = Join(name)

-----------------------------------------------------------------------------
(* C8 *)

\* the JSON text of the combined payload {results: {summary, tests, environment}, context}
PayloadText(p) ==
  LET env == p.results.environment
      results ==
        StringifyObject(
          <<[key |-> "summary", json |-> Some(StringifySummary(p.results.summary))],
            [key |-> "tests",
             json |-> Some(StringifyArray([i \in DOMAIN p.results.tests |->
                                             StringifyTest(p.results.tests[i])]))],
            [key |-> "environment",
             json |-> Some(StringifyObject(
               <<[key |-> "repositoryUrl", json |-> Some(Quote(env.repositoryUrl))],
                 [key |-> "branchName", json |-> Some(Quote(env.branchName))],
                 [key |-> "commit", json |-> Some(Quote(env.commit))]>>))]>>)
      context ==
        StringifyObject(
          <<[key |-> "type", json |-> Some(Quote(p.context.type))],
            [key |-> "actor", json |-> OptQuote(p.context.actor)],
            [key |-> "eventURL", json |-> Some(Quote(p.context.eventURL))]>>)
  IN StringifyObject(<<[key |-> "results", json |-> Some(results)],
                       [key |-> "context", json |-> Some(context)]>>)

\* C8: a run of the counter-gated version that raised no exception took the
\* failure branch exactly when the report's summary has a key and its `failed`
\* counter is above zero, whatever the tests are, and the success branch
\* otherwise; in both branches the last line logged carries the full combined
\* payload.
C8_CounterGatedAndLogged ==
  (variant = "B" /\ DoneNormally) =>
    LET s == OrElse(ReportSummary, <<>>)
    IN /\ branch = IF Len(s) > 0 /\ GreaterThanZero(GetOwn(s, "failed"))
                   THEN "failure" ELSE "success"
       /\ infoLog[Len(infoLog)] = "Results: " \o PayloadText(payload[1])

-----------------------------------------------------------------------------
(* C10 *)

IsAbsentPath(t) == t.filePath = None

\* the visited failed tests whose filePath is absent or empty, in input order
FailedWithoutPath ==
  LET Match(t) == t.status = "failed" /\ t.filePath \in {None, Some("")}
  IN SelectSeq(Visited, Match)

\* no call of processTest on a failed test without a usable filePath raised
NoPathRaisesNothing ==
  RaisedInScan => ~(/\ tests[idx + 1].status = "failed"
                    /\ tests[idx + 1].filePath \in {None, Some("")})

\* C10 as claimed: a failed test whose filePath is absent or empty raises no
\* error and is appended to the bucket whose key is the empty string, which
\* all such tests share in input order.
C10_OneEmptyKeyBucket ==
  ScanBegun =>
    /\ NoPathRaisesNothing
    /\ StoredUnder("") = FailedWithoutPath

\* C10: a failed test whose filePath is absent or empty raises no error; one
\* with the empty string is appended to the bucket whose key is "", one with
\* no filePath to the bucket whose key is the string "undefined", each bucket
\* keeping its tests in input order.
C10_EmptyAndUndefinedBuckets ==
  ScanBegun =>
    /\ NoPathRaisesNothing
    /\ StoredUnder("") = FailedAt(Visited, Some(""))
    /\ SelectSeq(StoredUnder("undefined"), IsAbsentPath) = FailedAt(Visited, None)

\* a finished scan that met two failed tests without filePath and one with ""
C10_Witness ==
  /\ ScanBegun
  /\ Done
  /\ caught = None
  /\ Len(StoredUnder("undefined")) = 2
  /\ StoredUnder("undefined")[1].name /= StoredUnder("undefined")[2].name
  /\ Len(StoredUnder("")) = 1

=============================================================================
